---- MODULE Spec2Model ----
(***************************************************************************)
(* calendar_sync.py: one-way synchronisation of Exchange calendar events   *)
(* into a Google Calendar.  The module models                              *)
(*   - transform_event / hash_event (the normalizer), as operators;        *)
(*   - main(), one action per step of its two loops, against a model of    *)
(*     the destination calendar (list / import / update / delete);         *)
(*   - repeated runs of the process over the same source data.             *)
(* Strings that the code takes apart or orders (e-mail addresses) are      *)
(* sequences of one-character strings.  Instants are seconds since the     *)
(* epoch, dates are day numbers since the epoch.                           *)
(***************************************************************************)
EXTENDS Integers, Sequences, FiniteSets, TLC

VARIABLES
    tz,               \* config: UTC offset, in seconds, of General.Timezone
    exchange,         \* the events the Exchange mailbox holds in the window
    calendar,         \* the Google calendar: the set of its events
    nextId,           \* the next event id the Google calendar hands out
    pc,               \* position of the process in main()
    exchange_events,  \* main(): exchange_events.events
    google_events,    \* main(): the dict iCalUID -> event, in dict order
    i,                \* main(): index of the first loop (line 165)
    k,                \* main(): index of the second loop (line 180)
    google_service,   \* the global session handle (FALSE is None)
    builds,           \* how often this process has built a session (line 70)
    listed,           \* the items the last events().list call returned
    trace,            \* decisions and destination calls of the current run
    run,              \* number of the current run of the process
    history,          \* how the earlier runs ended
    event_a,          \* normalizer check: a first source event
    event_b,          \* normalizer check: a second source event
    body_a,           \* normalizer check: <<transform_event(event_a)>>
    body_b            \* normalizer check: <<transform_event(event_b)>>

vars == <<tz, exchange, calendar, nextId, pc, exchange_events, google_events,
          i, k, google_service, builds, listed, trace, run, history,
          event_a, event_b, body_a, body_b>>

mainVars == <<exchange, calendar, nextId, exchange_events, google_events,
              i, k, google_service, builds, listed, trace, run, history>>

normVars == <<event_a, event_b, body_a, body_b>>

(***************************************************************************)
(* Bounds of the model.                                                    *)
(***************************************************************************)
MaxSrc == 2

MaxDest == 2

MaxRuns == 3

MaxAtt == 2

(***************************************************************************)
(* Constants of the program.                                               *)
(***************************************************************************)
None == "<None>"

SecondsPerDay == 86400

RESPONSE_MAPPING ==
    [Unknown |-> "needsAction", Accepted |-> "accepted",
     TentativelyAccepted |-> "tentative", Declined |-> "declined"]

\* config['Google Calendar']['CalendarAddress']
CalendarAddress == <<"g", "@", "b", ".", "c">>

\* config['General']['Timezone'], as fixed UTC offsets (UTC-5, UTC, UTC+10)
TzOffsets == {-18000, 0, 36000}

(***************************************************************************)
(* Strings as sequences of characters, ordered as Python orders str.       *)
(***************************************************************************)
Ord(c) ==
    CASE c = "." -> 46
      [] c = "@" -> 64
      [] c = "a" -> 97
      [] c = "b" -> 98
      [] c = "c" -> 99
      [] c = "g" -> 103

RECURSIVE StrLeq(_, _)
StrLeq(s, t) ==
    IF s = <<>> THEN TRUE
    ELSE IF t = <<>> THEN FALSE
    ELSE IF s[1] = t[1] THEN StrLeq(Tail(s), Tail(t))
    ELSE Ord(s[1]) < Ord(t[1])

\* re.match(r"[^@]+@[^@]+\.[^@]+", s): a match that starts at the first
\* character; it need not reach the end of s.
re_match(s) ==
    \E a \in 1..Len(s), d \in 1..Len(s) :
        /\ a >= 2
        /\ s[a] = "@"
        /\ \A n \in 1..(a - 1) : s[n] # "@"
        /\ d >= a + 2
        /\ s[d] = "."
        /\ \A n \in (a + 1)..(d - 1) : s[n] # "@"
        /\ d + 1 <= Len(s)
        /\ s[d + 1] # "@"

(***************************************************************************)
(* transform_event and hash_event.                                         *)
(***************************************************************************)
\* re.match(pattern, None) raises TypeError
re_match_raises(s) == s = <<None>>

\* line 87 raises for an attendee whose email is None
transform_raises(event) ==
    \E n \in 1..Len(event.attendees) : re_match_raises(event.attendees[n].email)

\* RESPONSE_MAPPING.get(response, 'needsAction')
ResponseStatus(response) ==
    IF response \in DOMAIN RESPONSE_MAPPING THEN RESPONSE_MAPPING[response]
    ELSE "needsAction"

\* the list comprehension of lines 81-87
ValidAttendees(event) ==
    LET valid == SelectSeq(event.attendees, LAMBDA person : re_match(person.email))
    IN  [n \in 1..Len(valid) |->
            [displayName |-> valid[n].name,
             email |-> valid[n].email,
             responseStatus |-> ResponseStatus(valid[n].response)]]

\* the entry lines 90-95 append
OwnAttendee == [email |-> CalendarAddress, responseStatus |-> "accepted"]

\* sorted() is stable: x goes after every entry whose key is <= its own
RECURSIVE InsertByEmail(_, _)
InsertByEmail(x, s) ==
    IF s = <<>> THEN <<x>>
    ELSE IF StrLeq(s[1].email, x.email) THEN <<s[1]>> \o InsertByEmail(x, Tail(s))
    ELSE <<x>> \o s

RECURSIVE sorted(_)
sorted(s) ==
    IF s = <<>> THEN <<>>
    ELSE InsertByEmail(s[Len(s)], sorted(SubSeq(s, 1, Len(s) - 1)))

LocalDate_UTC(t) == t \div SecondsPerDay

\* datetime.astimezone(tz).date().isoformat(), as a day number
LocalDate(t) == (t + tz) \div SecondsPerDay

\* line 120
IsAllDay(event) == (event.end - event.start) % SecondsPerDay = 0

\* json.dumps(event_body, sort_keys=True): the members in key order.  The
\* members that are dicts themselves are records, which have no order.
json_dumps(event_body) ==
    << <<"attendees", event_body.attendees>>,
       <<"end", event_body.end>>,
       <<"iCalUID", event_body.iCalUID>>,
       <<"location", event_body.location>>,
       <<"organizer", event_body.organizer>>,
       <<"reminders", event_body.reminders>>,
       <<"start", event_body.start>>,
       <<"summary", event_body.summary>> >>

\* hashlib.sha1(...).hexdigest(): the digest is taken to be injective, and
\* is never the empty string
hash_event(event_body) == <<"sha1", json_dumps(event_body)>>

transform_event(event) ==
    LET attendees == Append(ValidAttendees(event), OwnAttendee)
        event_body ==
            [iCalUID |-> event.id,
             summary |-> event.subject,
             location |-> event.location,
             start |-> IF IsAllDay(event)
                       THEN [date |-> LocalDate(event.start)]
                       ELSE [dateTime |-> event.start, timeZone |-> "UTC"],
             end |-> IF IsAllDay(event)
                     THEN [date |-> LocalDate(event.end - 1)]
                     ELSE [dateTime |-> event.end, timeZone |-> "UTC"],
             organizer |->
                 [displayName |-> IF event.organizer # <<>>
                                  THEN event.organizer[1].name ELSE None,
                  email |-> IF event.organizer # <<>>
                            THEN event.organizer[1].email ELSE <<None>>],
             attendees |-> sorted(attendees),
             reminders |-> [useDefault |-> TRUE]]
    IN  [iCalUID |-> event_body.iCalUID,
         summary |-> event_body.summary,
         location |-> event_body.location,
         start |-> event_body.start,
         end |-> event_body.end,
         organizer |-> event_body.organizer,
         attendees |-> event_body.attendees,
         reminders |-> event_body.reminders,
         description |-> hash_event(event_body)]

(***************************************************************************)
(* The source events the checks draw from.  An event is the object the     *)
(* Exchange collaborator returns: id, subject, location, start, end,       *)
(* organizer (<<>> is None, else <<[name, email]>>) and attendees.         *)
(***************************************************************************)
EmailA == <<"a", "@", "b", ".", "c">>

EmailB == <<"b", "@", "b", ".", "c">>

EmailBad == <<"a", "b">>

\* an address of which only a prefix has the shape the pattern asks for
EmailTrailing == <<"a", "@", "b", ".", "c", "@">>

\* person.email is None
NoEmail == <<None>>

People ==
    { [name |-> "N1", email |-> EmailA, response |-> "Accepted"],
      [name |-> "N2", email |-> EmailA, response |-> "Declined"],
      [name |-> "N1", email |-> EmailB, response |-> "Unknown"],
      [name |-> "N2", email |-> EmailB, response |-> "Organizer"],
      [name |-> "N1", email |-> EmailBad, response |-> "Accepted"],
      [name |-> "N2", email |-> EmailTrailing, response |-> "TentativelyAccepted"],
      [name |-> "N1", email |-> NoEmail, response |-> "Accepted"] }

SeqsUpTo(S, n) == UNION { [1..m -> S] : m \in 0..n }

Ids == {"A", "B"}

Subjects == {"s1", "s2"}

Organizers == { <<>>, <<[name |-> "N1", email |-> EmailA]>> }

\* <<start, end>>: one hour; one day from midnight UTC; one day from 01:00
\* UTC; no duration, at midnight UTC
Spans == { <<0, 3600>>, <<0, 86400>>, <<3600, 90000>>, <<0, 0>> }

\* the first event of a pair; Changed varies its id and its subject
NormEvents ==
    { [id |-> "A", subject |-> "s1", location |-> "l1",
       start |-> span[1], end |-> span[2],
       organizer |-> organizer, attendees |-> attendees] :
         span \in Spans,
         organizer \in Organizers, attendees \in SeqsUpTo(People, MaxAtt) }

\* the events that list the attendees of e in another order
Reordered(e) ==
    { [e EXCEPT !.attendees = [n \in 1..Len(e.attendees) |-> e.attendees[f[n]]]] :
        f \in Permutations(1..Len(e.attendees)) }

\* the events that differ from e in one field, or in one attendee
Changed(e) ==
    { [e EXCEPT !.id = id] : id \in Ids }
    \cup { [e EXCEPT !.subject = subject] : subject \in Subjects }
    \cup { [e EXCEPT !.start = span[1], !.end = span[2]] : span \in Spans }
    \cup { [e EXCEPT !.organizer = organizer] : organizer \in Organizers }
    \cup { [e EXCEPT !.attendees[n] = person] :
             n \in 1..Len(e.attendees), person \in People }
    \cup { [e EXCEPT !.attendees = SubSeq(e.attendees, 1, n - 1)
                                   \o SubSeq(e.attendees, n + 1, Len(e.attendees))] :
             n \in 1..Len(e.attendees) }

\* the events of the reconciliation runs: one-hour events that differ in id
\* and in start
SyncEvent(id, start) ==
    [id |-> id, subject |-> "s1", location |-> "l1",
     start |-> start, end |-> start + 3600,
     organizer |-> <<>>, attendees |-> <<>>]

SyncEvents == { SyncEvent("A", 0), SyncEvent("A", 7200), SyncEvent("B", 0) }

(***************************************************************************)
(* The normalizer on its own: two source events are drawn and normalized.  *)
(***************************************************************************)
InitNorm ==
    /\ tz \in TzOffsets
    /\ event_a \in NormEvents
    /\ event_b \in Reordered(event_a) \cup Changed(event_a)
    /\ body_a = <<>>
    /\ body_b = <<>>
    /\ pc = "transform"
    /\ exchange = <<>>
    /\ calendar = <<>>
    /\ nextId = 1
    /\ exchange_events = <<>>
    /\ google_events = <<>>
    /\ i = 1
    /\ k = 1
    /\ google_service = FALSE
    /\ builds = 0
    /\ listed = <<>>
    /\ trace = <<>>
    /\ run = 1
    /\ history = <<>>

\* a call of transform_event: <<the body it returns>>, or <<>> when it raises
Transformed(event) ==
    IF transform_raises(event) THEN <<>> ELSE <<transform_event(event)>>

TransformEvents ==
    /\ pc = "transform"
    /\ body_a' = Transformed(event_a)
    /\ body_b' = Transformed(event_b)
    /\ pc' = IF body_a' = <<>> \/ body_b' = <<>> THEN "raised" ELSE "transformed"
    /\ UNCHANGED <<tz, event_a, event_b>>
    /\ UNCHANGED mainVars

NextNorm == TransformEvents

SpecNorm == InitNorm /\ [][NextNorm]_vars

(***************************************************************************)
(* The dict google_events: a sequence of [key, value] entries in the       *)
(* order Python keeps them (the order in which each key was first set).    *)
(***************************************************************************)
Keys(dict) == { dict[n].key : n \in 1..Len(dict) }

\* dict[key]
Lookup(dict, key) == dict[CHOOSE n \in 1..Len(dict) : dict[n].key = key].value

\* dict[key] = value: a key already set keeps its place
DictSet(dict, key, value) ==
    IF key \in Keys(dict)
    THEN [n \in 1..Len(dict) |->
            IF dict[n].key = key THEN [key |-> key, value |-> value] ELSE dict[n]]
    ELSE Append(dict, [key |-> key, value |-> value])

\* a pop that leaves the entry in the dict
DictPop_Keep(dict, key) == dict

\* dict.pop(key)
DictPop(dict, key) == SelectSeq(dict, LAMBDA entry : entry.key # key)

\* a filter that lets every event into the dict
HasICalUID_Always(e) == TRUE

\* e.get('iCalUID') is truthy: the key is there and is not empty
HasICalUID(e) == e.iCalUID # ""

\* {e.get('iCalUID'): e for e in items if e.get('iCalUID')}
RECURSIVE EventsByICalUID(_)
EventsByICalUID(items) ==
    IF items = <<>> THEN <<>>
    ELSE LET e == items[Len(items)]
             before == EventsByICalUID(SubSeq(items, 1, Len(items) - 1))
         IN  IF HasICalUID(e) THEN DictSet(before, e.iCalUID, e) ELSE before

\* google_event.get('description', '')
StoredHash(google_event) ==
    IF "description" \in DOMAIN google_event THEN google_event.description ELSE <<>>

\* a membership test that never finds the identifier
InGoogleEvents_Never(event_body, dict) == FALSE

\* line 168
InGoogleEvents(event_body, dict) == event_body.iCalUID \in Keys(dict)

\* a comparison that always asks for the update
NeedsUpdate_Always(event_body, google_event) == TRUE

\* line 170
NeedsUpdate(event_body, google_event) ==
    event_body.description # StoredHash(google_event)

(***************************************************************************)
(* The Google calendar: a set of events [id, iCalUID, start, description]  *)
(* (description may be missing; iCalUID "" stands for none).               *)
(***************************************************************************)
\* events().list(..., singleEvents=True, orderBy='startTime'): the events
\* by start time, and by id among those that start together
ListsBefore(e, f) ==
    \/ e.start.dateTime < f.start.dateTime
    \/ e.start.dateTime = f.start.dateTime /\ e.id < f.id

RECURSIVE ListEvents(_)
ListEvents(events) ==
    IF events = {} THEN <<>>
    ELSE LET first == CHOOSE e \in events : \A f \in events \ {e} : ListsBefore(e, f)
         IN  <<first>> \o ListEvents(events \ {first})

\* the event the calendar stores for a body it is sent
Stored(id, event_body) ==
    [id |-> id, iCalUID |-> event_body.iCalUID, start |-> event_body.start,
     description |-> event_body.description]

\* events().update(eventId=id, body=event_body)
UpdateIn(events, id, event_body) ==
    { e \in events : e.id # id } \cup { Stored(id, event_body) }

\* events().delete(eventId=id)
DeleteIn(events, id) == { e \in events : e.id # id }

\* the events a run may find in the calendar: one without identifier; one
\* of A without description; one that holds a normalized source event
DestShapes ==
    { [iCalUID |-> "", start |-> [dateTime |-> 0, timeZone |-> "UTC"]],
      [iCalUID |-> "A", start |-> [dateTime |-> 7200, timeZone |-> "UTC"]] }
    \cup { [iCalUID |-> e.id, start |-> transform_event(e).start,
            description |-> transform_event(e).description] : e \in SyncEvents }

InitialCalendars ==
    UNION { { { [id |-> n] @@ shape[n] : n \in 1..m } : shape \in [1..m -> DestShapes] } :
            m \in 0..MaxDest }

(***************************************************************************)
(* main().  pc: "start" (line 155), "google" (line 160), "loop" (lines     *)
(* 165-176), "delete" (lines 180-182), "done" (main returned), "aborted"   *)
(* (a call raised, and the exception ended the process).                   *)
(***************************************************************************)
Init ==
    /\ tz = 0
    /\ exchange \in SeqsUpTo(SyncEvents, MaxSrc)
    /\ calendar \in InitialCalendars
    /\ nextId = Cardinality(calendar) + 1
    /\ pc = "start"
    /\ exchange_events = <<>>
    /\ google_events = <<>>
    /\ i = 1
    /\ k = 1
    /\ google_service = FALSE
    /\ builds = 0
    /\ listed = <<>>
    /\ trace = <<>>
    /\ run = 1
    /\ history = <<>>
    /\ event_a = <<>>
    /\ event_b = <<>>
    /\ body_a = <<>>
    /\ body_b = <<>>

\* a main() whose delete loop comes before the loop over the source events
Position_DeleteFirst(n, m, events, dict) ==
    IF m <= Len(dict) THEN "delete"
    ELSE IF n <= Len(events) THEN "loop"
    ELSE "done"

\* where main() stands once the first loop has handled events 1..n-1 and
\* the second loop entries 1..m-1
Position(n, m, events, dict) ==
    IF n <= Len(events) THEN "loop"
    ELSE IF m <= Len(dict) THEN "delete"
    ELSE "done"

\* a handler that swallows the exception and goes on
OnError_Continue(position) == position

\* a handler that swallows a failure of the Exchange fetch and goes on to
\* the Google fetch
OnError_SourceSkipped(position) ==
    IF position = "start" THEN "google" ELSE "aborted"

\* no call of main() is inside a try: a call that raises ends the process
OnError(position) == "aborted"

\* one entry of trace: a decision of the first loop (src is the index of the
\* source event) or a delete of the second (src is 0); ok tells whether the
\* call returned.  A no-op makes no call.
Entry(op, src, eventId, body, ok) ==
    [op |-> op, src |-> src, eventId |-> eventId, body |-> body, ok |-> ok]

\* lines 153-156
GetEventsFromExchange ==
    /\ pc = "start"
    /\ \E ok \in BOOLEAN :
        IF ok
        THEN /\ exchange_events' = exchange
             /\ pc' = "google"
        ELSE /\ pc' = OnError(pc)
             /\ UNCHANGED exchange_events
    /\ UNCHANGED <<tz, exchange, calendar, nextId, google_events, i, k,
                   google_service, builds, listed, trace, run, history>>
    /\ UNCHANGED normVars

\* an init_google_calendar_service without the test of line 57
init_google_calendar_service_NoCache(service, n, authorized) ==
    IF authorized THEN <<TRUE, n + 1>> ELSE <<service, n>>

\* init_google_calendar_service(), on <<google_service, builds>>: a set
\* handle is returned as it is (line 57); otherwise the credentials are
\* read or asked for, which may raise, and the session is built (line 70)
init_google_calendar_service(service, n, authorized) ==
    IF service THEN <<service, n>>
    ELSE IF authorized THEN <<TRUE, n + 1>>
    ELSE <<service, n>>

\* lines 158-162: init_google_calendar_service, events().list, the dict
GetEventsFromGoogle ==
    /\ pc = "google"
    /\ \E outcome \in {"ok", "no_credentials", "list_failed"} :
        /\ LET session == init_google_calendar_service(
                              google_service, builds, outcome # "no_credentials")
           IN  /\ google_service' = session[1]
               /\ builds' = session[2]
        /\ IF outcome = "ok"
           THEN /\ listed' = ListEvents(calendar)
                /\ google_events' = EventsByICalUID(listed')
                /\ pc' = Position(1, 1, exchange_events, google_events')
           ELSE /\ pc' = OnError(pc)
                /\ UNCHANGED <<listed, google_events>>
    /\ UNCHANGED <<tz, exchange, calendar, nextId, exchange_events, i, k,
                   trace, run, history>>
    /\ UNCHANGED normVars

\* lines 166-173, hashes differ: events().update, then pop
UpdateEvent ==
    /\ pc = "loop"
    /\ LET event_body == transform_event(exchange_events[i]) IN
        /\ InGoogleEvents(event_body, google_events)
        /\ LET google_event == Lookup(google_events, event_body.iCalUID) IN
            /\ NeedsUpdate(event_body, google_event)
            /\ \E ok \in BOOLEAN :
                /\ trace' = Append(trace,
                        Entry("update", i, google_event.id, <<event_body>>, ok))
                /\ IF ok
                   THEN /\ calendar' = UpdateIn(calendar, google_event.id, event_body)
                        /\ google_events' = DictPop(google_events, event_body.iCalUID)
                        /\ i' = i + 1
                        /\ pc' = Position(i', k, exchange_events, google_events')
                   ELSE /\ pc' = OnError(pc)
                        /\ UNCHANGED <<calendar, google_events, i>>
    /\ UNCHANGED <<tz, exchange, nextId, exchange_events, k, google_service,
                   builds, listed, run, history>>
    /\ UNCHANGED normVars

\* lines 166-173, hashes equal: no call, pop
KeepEvent ==
    /\ pc = "loop"
    /\ LET event_body == transform_event(exchange_events[i]) IN
        /\ InGoogleEvents(event_body, google_events)
        /\ LET google_event == Lookup(google_events, event_body.iCalUID) IN
            /\ ~NeedsUpdate(event_body, google_event)
            /\ trace' = Append(trace,
                    Entry("noop", i, google_event.id, <<event_body>>, TRUE))
            /\ google_events' = DictPop(google_events, event_body.iCalUID)
            /\ i' = i + 1
            /\ pc' = Position(i', k, exchange_events, google_events')
    /\ UNCHANGED <<tz, exchange, calendar, nextId, exchange_events, k,
                   google_service, builds, listed, run, history>>
    /\ UNCHANGED normVars

\* lines 166-168, 174-176: events().import_
ImportEvent ==
    /\ pc = "loop"
    /\ LET event_body == transform_event(exchange_events[i]) IN
        /\ ~InGoogleEvents(event_body, google_events)
        /\ \E ok \in BOOLEAN :
            /\ trace' = Append(trace, Entry("import", i, nextId, <<event_body>>, ok))
            /\ IF ok
               THEN /\ calendar' = calendar \cup { Stored(nextId, event_body) }
                    /\ nextId' = nextId + 1
                    /\ i' = i + 1
                    /\ pc' = Position(i', k, exchange_events, google_events)
               ELSE /\ pc' = OnError(pc)
                    /\ UNCHANGED <<calendar, nextId, i>>
    /\ UNCHANGED <<tz, exchange, exchange_events, google_events, k,
                   google_service, builds, listed, run, history>>
    /\ UNCHANGED normVars

\* lines 180-182: events().delete for the next entry left in google_events
DeleteEvent ==
    /\ pc = "delete"
    /\ LET google_event == google_events[k].value IN
        \E ok \in BOOLEAN :
            /\ trace' = Append(trace, Entry("delete", 0, google_event.id, <<>>, ok))
            /\ IF ok
               THEN /\ calendar' = DeleteIn(calendar, google_event.id)
                    /\ k' = k + 1
                    /\ pc' = Position(i, k', exchange_events, google_events)
               ELSE /\ pc' = OnError(pc)
                    /\ UNCHANGED <<calendar, k>>
    /\ UNCHANGED <<tz, exchange, nextId, exchange_events, google_events, i,
                   google_service, builds, listed, run, history>>
    /\ UNCHANGED normVars

\* the scheduler starts the process again: the source data are the same,
\* the calendar is what the last run left, and the process state is fresh
StartRun ==
    /\ pc \in {"done", "aborted"}
    /\ run < MaxRuns
    /\ run' = run + 1
    /\ history' = Append(history, pc)
    /\ pc' = "start"
    /\ exchange_events' = <<>>
    /\ google_events' = <<>>
    /\ i' = 1
    /\ k' = 1
    /\ google_service' = FALSE
    /\ builds' = 0
    /\ listed' = <<>>
    /\ trace' = <<>>
    /\ UNCHANGED <<tz, exchange, calendar, nextId>>
    /\ UNCHANGED normVars

Next ==
    \/ GetEventsFromExchange
    \/ GetEventsFromGoogle
    \/ UpdateEvent
    \/ KeepEvent
    \/ ImportEvent
    \/ DeleteEvent
    \/ StartRun

Spec == Init /\ [][Next]_vars

(***************************************************************************)
(* Vocabulary of the properties.                                           *)
(***************************************************************************)
Range(s) == { s[n] : n \in 1..Len(s) }

\* the identifiers of the canonical set
CanonicalIds == { exchange[n].id : n \in 1..Len(exchange) }

\* the source events carry pairwise distinct identifiers
SrcDistinct ==
    \A m, n \in 1..Len(exchange) : exchange[m].id = exchange[n].id => m = n

\* the identifiers the listing of this run returned
ListedIds == { e.iCalUID : e \in Range(listed) } \ {""}

\* no two events of the listing carry the same identifier
ListedDistinct ==
    \A m, n \in 1..Len(listed) :
        (listed[m].iCalUID = listed[n].iCalUID /\ listed[m].iCalUID # "") => m = n

\* the event the mapping read at the start of the run holds for uid: the
\* last one listed with it
Matched(uid) ==
    listed[CHOOSE n \in 1..Len(listed) :
              /\ listed[n].iCalUID = uid
              /\ \A m \in (n + 1)..Len(listed) : listed[m].iCalUID # uid]

\* the hash an event of the calendar stores ('' when it has no description)
HashOf(e) == IF "description" \in DOMAIN e THEN e.description ELSE <<>>

\* the entries of trace that are calls to the destination
Calls == { m \in 1..Len(trace) : trace[m].op # "noop" }

\* the calendar holds the canonical set: one event per canonical
\* identifier, with the hash of its canonical event, and no other event
\* that carries an identifier
Reconciled ==
    LET identified == { e \in calendar : e.iCalUID # "" } IN
    /\ \A n \in 1..Len(exchange) :
          Cardinality({ e \in identified : e.iCalUID = exchange[n].id }) = 1
    /\ \A e \in identified :
          \E n \in 1..Len(exchange) :
              /\ exchange[n].id = e.iCalUID
              /\ HashOf(e) = transform_event(exchange[n]).description

\* the outcome of the run that ended n runs ago ("" when there is none)
Earlier(n) ==
    IF Len(history) >= n THEN history[Len(history) + 1 - n] ELSE ""

LoopEntries == { m \in 1..Len(trace) : trace[m].src > 0 }

\* what the calls of tr that returned have made of events
RECURSIVE Committed(_, _)
Committed(events, tr) ==
    IF tr = <<>> THEN events
    ELSE LET before == Committed(events, SubSeq(tr, 1, Len(tr) - 1))
             last == tr[Len(tr)]
         IN  IF ~last.ok \/ last.op = "noop" THEN before
             ELSE IF last.op = "delete"
                  THEN { e \in before : e.id # last.eventId }
             ELSE { e \in before : e.id # last.eventId }
                  \cup { [id |-> last.eventId,
                          iCalUID |-> last.body[1].iCalUID,
                          start |-> last.body[1].start,
                          description |-> last.body[1].description] }

(***************************************************************************)
(* C1.  After a run of main() that completes with no call failing, over    *)
(* source events with pairwise distinct identifiers and any listing, the   *)
(* events of the calendar that carry an identifier correspond one to one   *)
(* to the canonical set, each storing the hash of its canonical event.     *)
(* Violated: of several listed events with one identifier the dict keeps   *)
(* one, and the others stay in the calendar (see C7).                      *)
(***************************************************************************)
C1_FinalCorrespondence ==
    (pc = "done" /\ SrcDistinct) => Reconciled

\* The same, for the listings in which no two events share an identifier:
\* this holds.
C1_FinalCorrespondenceDistinctListing ==
    (pc = "done" /\ SrcDistinct /\ ListedDistinct) => Reconciled

(***************************************************************************)
(* C2.  Idempotence: a run that follows a completed run over the same      *)
(* source events (here with pairwise distinct identifiers, and with no     *)
(* call failing) issues no import, no update and no delete.                *)
(***************************************************************************)
C2_SecondRunIssuesNothing ==
    (Earlier(1) = "done" /\ SrcDistinct /\ pc # "aborted") => Calls = {}

(***************************************************************************)
(* C3.  Resume after abort: when a run was aborted and the following run   *)
(* over the same source data completes, the calendar holds exactly the     *)
(* canonical set, each event with its hash; and the run after that, if no  *)
(* call of it fails, issues no import, update or delete.                   *)
(***************************************************************************)
C3_ResumeAfterAbort ==
    SrcDistinct =>
        /\ (Earlier(1) = "aborted" /\ pc = "done") => Reconciled
        /\ (Earlier(2) = "aborted" /\ Earlier(1) = "done" /\ pc # "aborted")
              => Calls = {}

(***************************************************************************)
(* C4.  Identifier join completeness: for every identifier in both the     *)
(* canonical set and the mapping, exactly one of update and no-op is       *)
(* decided in a run that completes (at most one in any run); the update is *)
(* issued if and only if the stored hash of the matched event ('' when it  *)
(* has no description) differs from the canonical hash; it targets the     *)
(* matched event's id and carries the full canonical body.                 *)
(***************************************************************************)
C4_JoinComplete ==
    LET joined == { m \in 1..Len(trace) : trace[m].op \in {"update", "noop"} }
        of(uid) == { m \in joined : trace[m].body[1].iCalUID = uid }
    IN  /\ \A m \in joined :
              LET canonical == transform_event(exchange_events[trace[m].src])
              IN  /\ canonical.iCalUID \in ListedIds
                  /\ (trace[m].op = "update")
                        <=> (HashOf(Matched(canonical.iCalUID)) # canonical.description)
                  /\ trace[m].eventId = Matched(canonical.iCalUID).id
                  /\ trace[m].body = <<canonical>>
                  /\ canonical.iCalUID = exchange_events[trace[m].src].id
        /\ \A uid \in ListedIds : Cardinality(of(uid)) <= 1
        /\ pc = "done" =>
              \A uid \in ListedIds \cap CanonicalIds : Cardinality(of(uid)) = 1

C4_Witness ==
    /\ pc = "done"
    /\ \E m, n \in 1..Len(trace) : trace[m].op = "update" /\ trace[n].op = "noop"

(***************************************************************************)
(* C5.  Deletion completeness: in a run that completes, for every          *)
(* identifier of the listing that is absent from the canonical set exactly *)
(* one delete is issued; and no delete is ever issued for a destination    *)
(* event whose identifier is in the canonical set.                         *)
(***************************************************************************)
C5_DeletionComplete ==
    LET deletes == { m \in 1..Len(trace) : trace[m].op = "delete" }
        target(m) == CHOOSE e \in Range(listed) : e.id = trace[m].eventId
    IN  /\ \A m \in deletes :
              /\ \E e \in Range(listed) : e.id = trace[m].eventId
              /\ target(m).iCalUID \notin CanonicalIds
        /\ pc = "done" =>
              \A uid \in ListedIds \ CanonicalIds :
                  Cardinality({ m \in deletes :
                                  trace[m].ok /\ target(m).iCalUID = uid }) = 1

C5_Witness ==
    /\ pc = "done"
    /\ \E m, n \in 1..Len(trace) :
          /\ trace[m].op = "delete"
          /\ trace[n].op \in {"update", "noop"}
    /\ Cardinality(ListedIds \ CanonicalIds) = 1

(***************************************************************************)
(* C6.  Import rule as claimed: a source event the loop processes is       *)
(* imported if and only if its identifier is absent from the mapping read  *)
(* at the start of the run.  Violated when two source events share an      *)
(* identifier the destination holds: the first is matched and popped, the  *)
(* second is imported.                                                     *)
(***************************************************************************)
C6_ImportIffAbsentAtStart ==
    \A m \in LoopEntries :
        (trace[m].op = "import") <=> (trace[m].body[1].iCalUID \notin ListedIds)

(***************************************************************************)
(* C6, amended.  A source event is imported if and only if its identifier  *)
(* is absent from the working mapping when it is processed: absent from    *)
(* the mapping read at the start of the run, or carried by an earlier      *)
(* source event of the run.  The import body is the full canonical event,  *)
(* identifier included, and every source event processed yields exactly    *)
(* one decision among import, update and no-op.                            *)
(***************************************************************************)
C6_ImportIffAbsentWhenProcessed ==
    /\ \A m \in LoopEntries :
          LET uid == exchange_events[trace[m].src].id IN
          /\ (trace[m].op = "import")
                <=> \/ uid \notin ListedIds
                    \/ \E n \in 1..(trace[m].src - 1) : exchange_events[n].id = uid
          /\ trace[m].op \in {"import", "update", "noop"}
          /\ trace[m].body = <<transform_event(exchange_events[trace[m].src])>>
          /\ trace[m].body[1].iCalUID = uid
    /\ \A n \in 1..Len(exchange_events) :
          LET decisions == { m \in LoopEntries : trace[m].src = n } IN
          /\ Cardinality(decisions) <= 1
          /\ (n < i \/ pc \in {"delete", "done"}) => Cardinality(decisions) = 1

C6_Witness ==
    /\ pc = "done"
    /\ \E m, n \in LoopEntries :
          /\ m < n
          /\ trace[m].op = "update"
          /\ trace[n].op = "import"
          /\ trace[n].body[1].iCalUID \in ListedIds

(***************************************************************************)
(* C7.  In a run that completes, every listed event that carries an        *)
(* identifier is visited exactly once: matched (update or no-op) or        *)
(* deleted.  Violated by a listing in which several events carry the same  *)
(* identifier: the dict keeps the last of them and the others are never    *)
(* visited.                                                                *)
(***************************************************************************)
C7_EveryListedEventVisitedOnce ==
    pc = "done" =>
        \A e \in Range(listed) :
            e.iCalUID # "" =>
                Cardinality({ m \in 1..Len(trace) :
                                /\ trace[m].op \in {"update", "noop", "delete"}
                                /\ trace[m].eventId = e.id }) = 1

\* The same, for the listings in which no two events share an identifier:
\* this holds.
C7_VisitedOnceDistinctListing ==
    ListedDistinct => C7_EveryListedEventVisitedOnce

(***************************************************************************)
(* C8.  A listed event without identifier is not in the mapping, no update *)
(* or delete is ever issued against it, and it stays in the calendar as it *)
(* was.                                                                    *)
(***************************************************************************)
C8_NoIdentifierUntouched ==
    \A e \in Range(listed) :
        e.iCalUID = "" =>
            /\ \A n \in 1..Len(google_events) : google_events[n].value.id # e.id
            /\ \A m \in Calls : trace[m].op = "import" \/ trace[m].eventId # e.id
            /\ e \in calendar

C8_Witness ==
    /\ pc = "done"
    /\ \E e \in Range(listed) : e.iCalUID = ""
    /\ \E m, n \in Calls : trace[m].op = "update" /\ trace[n].op = "delete"

(***************************************************************************)
(* C9.  A failed import, update or delete ends the run: the failed call is *)
(* the last entry of the trace (no further call, no retry), the process is *)
(* aborted, and the calendar is what the calls that returned made of it    *)
(* (no cleanup, no rollback).                                              *)
(***************************************************************************)
C9_FailedCallIsFatal ==
    /\ \A m \in 1..Len(trace) :
          ~trace[m].ok => (m = Len(trace) /\ pc = "aborted")
    /\ trace # <<>> => calendar = Committed(Range(listed), trace)

C9_Witness ==
    /\ pc = "aborted"
    /\ Len(trace) >= 2
    /\ trace[1].ok /\ trace[1].op # "noop"
    /\ ~trace[Len(trace)].ok
    /\ calendar # Range(listed)

(***************************************************************************)
(* C10.  Hash sensitivity: two normalized events have the same hash if and *)
(* only if their identifier, title, location, time span, organizer and     *)
(* attendees (each with its name and status, in any order) are equal.      *)
(* Violated: attendees that share an e-mail address keep the order of the  *)
(* source, so the hash depends on that order.                              *)
(***************************************************************************)
Occurrences(x, s) == Cardinality({ n \in 1..Len(s) : s[n] = x })

SameAttendees(s, t) ==
    \A x \in Range(s) \cup Range(t) : Occurrences(x, s) = Occurrences(x, t)

SameMeaning(a, b) ==
    /\ a.iCalUID = b.iCalUID
    /\ a.summary = b.summary
    /\ a.location = b.location
    /\ a.start = b.start
    /\ a.end = b.end
    /\ a.organizer = b.organizer
    /\ SameAttendees(a.attendees, b.attendees)

C10_HashSensitivity ==
    pc = "transformed" =>
        ((body_a[1].description = body_b[1].description)
            <=> SameMeaning(body_a[1], body_b[1]))

\* The same, for source events of which no two attendees with a valid
\* address share it: this holds.
DistinctEmails(event) ==
    \A m, n \in 1..Len(event.attendees) :
        (/\ event.attendees[m].email = event.attendees[n].email
         /\ re_match(event.attendees[m].email)) => m = n

C10_HashSensitivityDistinctEmails ==
    (DistinctEmails(event_a) /\ DistinctEmails(event_b)) => C10_HashSensitivity

(***************************************************************************)
(* C11.  The attendees transform_event produces are sorted by email        *)
(* ascending, no two of them have the same email, and the calendar's own   *)
(* address is among them with responseStatus accepted.                     *)
(***************************************************************************)
SortedByEmail(att) ==
    \A n \in 1..(Len(att) - 1) : StrLeq(att[n].email, att[n + 1].email)

HasOwnAddress(att) ==
    \E n \in 1..Len(att) :
        att[n].email = CalendarAddress /\ att[n].responseStatus = "accepted"

\* C11: the attendees of the event body are sorted by email, pairwise
\* distinct in email and contain the calendar's own address as accepted
C11_AttendeesSortedDistinctOwn ==
    body_a # <<>> =>
        LET att == body_a[1].attendees
        IN  /\ SortedByEmail(att)
            /\ \A m, n \in 1..Len(att) : att[m].email = att[n].email => m = n
            /\ HasOwnAddress(att)

\* what remains of C11 without the deduplication: sorted, own address present
C11_AttendeesSortedOwn ==
    body_a # <<>> =>
        LET att == body_a[1].attendees
        IN  SortedByEmail(att) /\ HasOwnAddress(att)

(***************************************************************************)
(* C12.  All-day detection.                                                *)
(***************************************************************************)
\* the day, counted from the epoch, that instant t falls on in the
\* configured timezone
DayOf(t) == (t + tz) \div 86400

WholeDays(event) == (event.end - event.start) % 86400 = 0

\* C12 as stated: a duration that is a multiple of 86400 s gives the date
\* range from the local date of the start to the local date of the end
\* minus one day; any other duration keeps the start and end instants
C12_EndDateMinusOneDay ==
    body_a # <<>> =>
        IF WholeDays(event_a)
        THEN /\ body_a[1].start = [date |-> DayOf(event_a.start)]
             /\ body_a[1].end = [date |-> DayOf(event_a.end) - 1]
        ELSE /\ body_a[1].start = [dateTime |-> event_a.start, timeZone |-> "UTC"]
             /\ body_a[1].end = [dateTime |-> event_a.end, timeZone |-> "UTC"]

\* C12, amended: a duration that is a multiple of 86400 s gives the date
\* range from the local date of the start to the local date of the instant
\* one second before the end; any other duration keeps the start and end
\* instants
C12_EndDateOfLastSecond ==
    body_a # <<>> =>
        IF WholeDays(event_a)
        THEN /\ body_a[1].start = [date |-> DayOf(event_a.start)]
             /\ body_a[1].end = [date |-> DayOf(event_a.end - 1)]
        ELSE /\ body_a[1].start = [dateTime |-> event_a.start, timeZone |-> "UTC"]
             /\ body_a[1].end = [dateTime |-> event_a.end, timeZone |-> "UTC"]

\* an all-day range was emitted for an event that does not end on a local
\* midnight, in a timezone other than UTC
C12_Witness ==
    /\ body_a # <<>>
    /\ WholeDays(event_a)
    /\ event_a.end > event_a.start
    /\ (event_a.end + tz) % 86400 # 0
    /\ tz # 0
    /\ "date" \in DOMAIN body_a[1].end

\* the example of C12: midnight to midnight UTC, read in UTC, ends on the
\* day before the local date of the end
C12_MidnightUTC ==
    (/\ body_a # <<>>
     /\ tz = 0
     /\ WholeDays(event_a)
     /\ event_a.end > event_a.start
     /\ event_a.start % 86400 = 0)
        => body_a[1].end = [date |-> DayOf(event_a.end) - 1]

(***************************************************************************)
(* C13.  Attendee filtering and status mapping.                            *)
(***************************************************************************)
\* the whole of s is: non-@ characters, "@", non-@ characters, ".", non-@
\* characters
WholeEmailShape(s) ==
    \E a \in 2..Len(s), d \in 1..Len(s) :
        /\ \A n \in 1..Len(s) : (s[n] = "@") <=> (n = a)
        /\ s[d] = "."
        /\ d >= a + 2
        /\ d + 1 <= Len(s)

MappedStatus(response) ==
    CASE response = "Unknown" -> "needsAction"
      [] response = "Accepted" -> "accepted"
      [] response = "TentativelyAccepted" -> "tentative"
      [] response = "Declined" -> "declined"
      [] OTHER -> "needsAction"

\* person is among the attendees of event_body, under its name and email
\* and with the status its response maps to
Included(person, event_body) ==
    \E n \in 1..Len(event_body.attendees) :
        event_body.attendees[n] =
            [displayName |-> person.name, email |-> person.email,
             responseStatus |-> MappedStatus(person.response)]

\* C13: a source attendee is among the attendees of the body, with its
\* mapped status, if and only if its whole email has the shape
C13_IncludedIffWholeEmailShape ==
    body_a # <<>> =>
        \A n \in 1..Len(event_a.attendees) :
            Included(event_a.attendees[n], body_a[1])
                <=> WholeEmailShape(event_a.attendees[n].email)

\* what the code guarantees: every attendee whose whole email has the shape
\* is included with its mapped status, and every entry with a displayName
\* is a source attendee with its mapped status
C13_WholeEmailShapeIncluded ==
    body_a # <<>> =>
        /\ \A n \in 1..Len(event_a.attendees) :
               WholeEmailShape(event_a.attendees[n].email)
                   => Included(event_a.attendees[n], body_a[1])
        /\ \A m \in 1..Len(body_a[1].attendees) :
               "displayName" \in DOMAIN body_a[1].attendees[m] =>
                   \E n \in 1..Len(event_a.attendees) :
                       body_a[1].attendees[m] =
                           [displayName |-> event_a.attendees[n].name,
                            email |-> event_a.attendees[n].email,
                            responseStatus |->
                                MappedStatus(event_a.attendees[n].response)]

(***************************************************************************)
(* C14.  Malformed event data is never fatal.                              *)
(***************************************************************************)
\* C14: whatever the attendee emails, the statuses and the organizer of
\* the source event, transform_event returns an event body
C14_TransformAlwaysReturns ==
    pc # "transform" => body_a # <<>>

\* what the code guarantees: transform_event returns for every event whose
\* attendees all have an email, and an absent organizer gives a null
\* displayName and email
C14_ReturnsWhenEmailsPresent ==
    pc # "transform" =>
        /\ (\A n \in 1..Len(event_a.attendees) :
                event_a.attendees[n].email # <<None>>) => body_a # <<>>
        /\ (body_a # <<>> /\ event_a.organizer = <<>>) =>
               body_a[1].organizer = [displayName |-> None, email |-> <<None>>]

(***************************************************************************)
(* C19.  The all-day range is not inverted.                                *)
(***************************************************************************)
\* C19: when the body has an all-day range for an event with end >= start,
\* the end date is not earlier than the start date
C19_EndDateNotBeforeStartDate ==
    (/\ body_a # <<>>
     /\ event_a.end >= event_a.start
     /\ "date" \in DOMAIN body_a[1].start)
        => body_a[1].end.date >= body_a[1].start.date

\* the same for the events that last at least a second
C19_EndDateNotBeforeStartDatePositive ==
    (/\ body_a # <<>>
     /\ event_a.end > event_a.start
     /\ "date" \in DOMAIN body_a[1].start)
        => body_a[1].end.date >= body_a[1].start.date

(***************************************************************************)
(* C15.  Mutation ordering within a run.                                   *)
(***************************************************************************)
\* C15: the decisions of a run are issued in the order of the source
\* events, and once a delete is issued only deletes follow
C15_MutationOrdering ==
    \A m, n \in 1..Len(trace) :
        m < n =>
            /\ (trace[m].src > 0 /\ trace[n].src > 0) => trace[m].src < trace[n].src
            /\ trace[m].op = "delete" => trace[n].op = "delete"

\* a run issued an import and an update for two source events, and then a
\* delete
C15_Witness ==
    \E m, n, d \in 1..Len(trace) :
        /\ m < n
        /\ n < d
        /\ {trace[m].op, trace[n].op} = {"import", "update"}
        /\ trace[d].op = "delete"

(***************************************************************************)
(* C16.  The session is established at most once per process and reused.   *)
(***************************************************************************)
\* C16: a process builds the session at most once and holds it from then
\* on; a further call of init_google_calendar_service returns the session
\* held and builds nothing; the listing and every import, update and
\* delete are made with the session established
C16_SessionBuiltOnce ==
    /\ builds <= 1
    /\ google_service <=> (builds = 1)
    /\ google_service =>
          \A authorized \in BOOLEAN :
              init_google_calendar_service(google_service, builds, authorized)
                  = <<TRUE, 1>>
    /\ (pc \in {"loop", "delete", "done"} \/ trace # <<>>) => google_service

\* a run has built the session, listed the calendar and issued calls
C16_Witness ==
    /\ google_service
    /\ builds = 1
    /\ listed # <<>>
    /\ \E m, n \in Calls : trace[m].op = "update" /\ trace[n].op = "delete"

(***************************************************************************)
(* C17.  Both collections are fetched before the first mutation.           *)
(***************************************************************************)
\* C17: a run issues no call before both fetches have returned; a call is
\* issued only with the source events fetched in full and the calendar
\* listed; a step of the fetch phase, the failing one included, leaves the
\* calendar as it is and the trace empty
C17_FetchedBeforeMutating ==
    /\ [](/\ pc \in {"start", "google"} => trace = <<>>
          /\ trace # <<>> => (exchange_events = exchange /\ google_service))
    /\ [][(pc \in {"start", "google"}) =>
             (calendar' = calendar /\ trace' = <<>>)]_vars

\* the Exchange fetch failed with events on both sides: the run is aborted
\* and has issued nothing
C17_Witness ==
    /\ pc = "aborted"
    /\ exchange # <<>>
    /\ exchange_events = <<>>
    /\ calendar # {}
    /\ trace = <<>>

(***************************************************************************)
(* C18.  Every destination event id receives at most one mutation.         *)
(***************************************************************************)
\* the ids of the events the mapping read at the start of the run holds
MappedIds == { Matched(uid).id : uid \in ListedIds }

\* C18: no two calls of a run address the same event id, and every update
\* and delete addresses an id of the mapping read at the start of the run
C18_OneMutationPerId ==
    /\ \A m, n \in Calls : trace[m].eventId = trace[n].eventId => m = n
    /\ \A m \in Calls :
          trace[m].op \in {"update", "delete"} => trace[m].eventId \in MappedIds

\* two source events share an identifier, and the run has updated, imported
\* and deleted
C18_Witness ==
    /\ ~SrcDistinct
    /\ \E m, n, d \in Calls :
          /\ trace[m].op = "update"
          /\ trace[n].op = "import"
          /\ trace[d].op = "delete"

====
